---- MODULE Spec2Model ----
(***************************************************************************)
(* The training driver of bert-blog-tagger (train.py): main's epoch loop   *)
(* with early stopping and checkpointing, and run_epoch's batch loop.      *)
(*                                                                         *)
(* Abstractions.  A loss is an exact rational <<numerator, denominator>>;  *)
(* a per-batch loss is an integer in Losses.  The model's parameters are   *)
(* the number of optimizer updates applied to them (every optimizer step   *)
(* yields a new parameter state).  A data loader is its number of batches. *)
(* EarlyStopMonitor, Logger and save_checkpoint live in utils.py, which is *)
(* not part of the sources at hand; they follow the specification's        *)
(* sections 4.3, 4.4 and 4.5.                                              *)
(***************************************************************************)
EXTENDS Integers, Sequences, FiniteSets

\* ------------------------------------------------------------- bounds
MaxEpochs == 3
MaxPatience == 2
MaxBatches == 2
MaxLoss == 2
MaxLoaderLen == 3
MaxFed == 4

Losses == 0..MaxLoss

VARIABLES
    \* main: arguments and collaborators
    num_epochs,     \* args.num_epochs
    patience,       \* args.patience
    train_loader,   \* len(train_loader)
    val_loader,     \* len(val_loader)
    \* main: control and locals
    pc,             \* position in main
    epoch,          \* the loop variable (-1 before the first iteration)
    train_loss,     \* local of main
    val_loss,       \* local of main
    monitor,        \* the EarlyStopMonitor object
    log_calls,      \* number of logger(...) calls
    \* model, optimizer, schedule, checkpoint file
    model,          \* parameter state: number of updates applied
    opt_steps,      \* optimizer.step() calls
    sched_steps,    \* scheduler.step() calls
    saves,          \* save_checkpoint calls
    saved,          \* parameters in the checkpoint file (-1: no file)
    \* run_epoch: the active call
    rpc,            \* position in run_epoch
    data_loader,    \* len(data_loader)
    optimizer,      \* TRUE iff the optimizer argument is not None
    scheduler,      \* TRUE iff the scheduler argument is not None
    i,              \* batches read from the loader so far
    total_loss,     \* local of run_epoch
    ret,            \* value returned
    exc,            \* exception raised ("none" if none)
    \* history (observers only, never read by the program)
    seen,           \* per-batch losses iterated by the active call: loss -> count
    forwards,       \* forward passes of the active call
    entry,          \* <<model, opt_steps, sched_steps>> when the call began
    val_hist,       \* validation losses of the run, one per completed epoch
    epoch_params,   \* parameters at the end of each completed epoch
    train_batches,  \* batches processed by training passes
    val_batches,    \* batches processed by validation passes
    monitor_calls,  \* monitor(...) calls
    save_site       \* where the checkpoint was written

vars == << num_epochs, patience, train_loader, val_loader, pc, epoch,
           train_loss, val_loss, monitor, log_calls, model, opt_steps,
           sched_steps, saves, saved, rpc, data_loader, optimizer, scheduler,
           i, total_loss, ret, exc, seen, forwards, entry, val_hist,
           epoch_params, train_batches, val_batches, monitor_calls, save_site >>

mainArgs == << num_epochs, patience, train_loader, val_loader >>
mainLocals == << pc, epoch, train_loss, val_loss, monitor, log_calls >>
checkpoint == << saves, saved, save_site >>
trainState == << model, opt_steps, sched_steps >>
frame == << rpc, data_loader, optimizer, scheduler, i, total_loss, ret, exc,
            seen, forwards, entry >>
mainHist == << val_hist, epoch_params, monitor_calls >>
batchHist == << train_batches, val_batches >>

\* ------------------------------------------------------------- losses
NoLoss == << 0, 0 >>

\* total / n, exactly
Mean(total, n) == << total, n >>

\* a < b on rationals with positive denominators
Lt(a, b) == a[1] * b[2] < b[1] * a[2]

NoneSeen == [l \in Losses |-> 0]

RECURSIVE SumUpTo(_, _)
SumUpTo(f, l) == IF l < 0 THEN 0 ELSE l * f[l] + SumUpTo(f, l - 1)

RECURSIVE CountUpTo(_, _)
CountUpTo(f, l) == IF l < 0 THEN 0 ELSE f[l] + CountUpTo(f, l - 1)

SeenSum == SumUpTo(seen, MaxLoss)
SeenCount == CountUpTo(seen, MaxLoss)

\* ------------------------------------------------- the early-stop monitor
\* EarlyStopMonitor(patience)
MonitorInit(P) ==
    [patience |-> P, has_best |-> FALSE, best |-> NoLoss, counter |-> 0,
     stop |-> FALSE]

\* monitor(loss) counting a repeat of the best loss as an improvement
MonitorCallLeq(m, loss) ==
    LET improved == (~m.has_best) \/ ~Lt(m.best, loss)
        c == IF improved THEN 0 ELSE m.counter + 1
    IN  [m EXCEPT !.has_best = TRUE,
                  !.best = IF improved THEN loss ELSE @,
                  !.counter = c,
                  !.stop = @ \/ (c >= m.patience)]

\* monitor(loss)
MonitorCall(m, loss) ==
    LET improved == (~m.has_best) \/ Lt(loss, m.best)
        c == IF improved THEN 0 ELSE m.counter + 1
    IN  [m EXCEPT !.has_best = TRUE,
                  !.best = IF improved THEN loss ELSE @,
                  !.counter = c,
                  !.stop = @ \/ (c >= m.patience)]

\* save_checkpoint(model, ...): the parameters written to the file
SaveCheckpoint(m) == m

\* ------------------------------------------------------------ run_epoch
\* run_epoch(data_loader, ..., optimizer, scheduler) is entered
Call(n, o, s) ==
    /\ rpc' = "entry"
    /\ data_loader' = n
    /\ optimizer' = o
    /\ scheduler' = s
    /\ i' = 0
    /\ total_loss' = 0
    /\ ret' = NoLoss
    /\ exc' = "none"
    /\ seen' = NoneSeen
    /\ forwards' = 0
    /\ entry' = trainState

\* the call's frame is gone
Discard ==
    /\ rpc' = "idle"
    /\ data_loader' = 0
    /\ optimizer' = FALSE
    /\ scheduler' = FALSE
    /\ i' = 0
    /\ total_loss' = 0
    /\ ret' = NoLoss
    /\ exc' = "none"
    /\ seen' = NoneSeen
    /\ forwards' = 0
    /\ entry' = << 0, 0, 0 >>

\* lines 55-58: the assertion holds
AssertNoAssert(o, s) == TRUE
AssertOk(o, s) == o \/ ~s

\* line 67: if optimizer:
TakesStepAlways(o) == TRUE
TakesStep(o) == o

\* line 71: scheduler.step()
SchedulerStepForgotten(n) == n
SchedulerStep(n) == n + 1

\* line 72: total_loss += loss.item()
AccumulateOverwrites(total, loss) == loss
Accumulate(total, loss) == total + loss

\* lines 55-59
RunEpochAssert ==
    /\ rpc = "entry"
    /\ IF AssertOk(optimizer, scheduler)
       THEN /\ rpc' = "loop"
            /\ total_loss' = 0
            /\ exc' = exc
       ELSE /\ rpc' = "raised"
            /\ exc' = "AssertionError"
            /\ total_loss' = total_loss
    /\ UNCHANGED << data_loader, optimizer, scheduler, i, ret, seen, forwards,
                    entry >>
    /\ UNCHANGED << mainArgs, mainLocals, checkpoint, trainState, mainHist,
                    batchHist >>

\* lines 60-72: one iteration of the batch loop
RunEpochBatch ==
    /\ rpc = "loop"
    /\ i < data_loader
    /\ \E loss \in Losses :
         /\ i' = i + 1
         /\ forwards' = forwards + 1
         /\ seen' = [seen EXCEPT ![loss] = @ + 1]
         /\ IF TakesStep(optimizer)
            THEN /\ model' = model + 1
                 /\ opt_steps' = opt_steps + 1
                 /\ IF scheduler
                    THEN /\ sched_steps' = SchedulerStep(sched_steps)
                         /\ total_loss' = Accumulate(total_loss, loss)
                         /\ rpc' = "loop"
                         /\ exc' = exc
                    ELSE \* None has no attribute step
                         /\ sched_steps' = sched_steps
                         /\ total_loss' = total_loss
                         /\ rpc' = "raised"
                         /\ exc' = "AttributeError"
            ELSE /\ UNCHANGED trainState
                 /\ total_loss' = Accumulate(total_loss, loss)
                 /\ rpc' = "loop"
                 /\ exc' = exc
    /\ train_batches' = IF pc = "train" THEN train_batches + 1 ELSE train_batches
    /\ val_batches' = IF pc = "val" THEN val_batches + 1 ELSE val_batches
    /\ UNCHANGED << data_loader, optimizer, scheduler, ret, entry >>
    /\ UNCHANGED << mainArgs, mainLocals, checkpoint, mainHist >>

\* line 73
RunEpochReturn ==
    /\ rpc = "loop"
    /\ i = data_loader
    /\ IF data_loader = 0
       THEN /\ rpc' = "raised"
            /\ exc' = "ZeroDivisionError"
            /\ ret' = ret
       ELSE /\ rpc' = "returned"
            /\ ret' = Mean(total_loss, data_loader)
            /\ exc' = exc
    /\ UNCHANGED << data_loader, optimizer, scheduler, i, total_loss, seen,
                    forwards, entry >>
    /\ UNCHANGED << mainArgs, mainLocals, checkpoint, trainState, mainHist,
                    batchHist >>

\* ----------------------------------------------------------------- main
\* save_checkpoint(model, args.model_name, logger) called at `site`
Save(site) ==
    /\ saves' = saves + 1
    /\ saved' = SaveCheckpoint(model)
    /\ save_site' = site

\* lines 14-34; line 18 reads the first training batch
Setup ==
    /\ pc = "start"
    /\ pc' = IF train_loader = 0 THEN "error" ELSE "loop"
    /\ monitor' = MonitorInit(patience)
    /\ UNCHANGED << epoch, train_loss, val_loss, log_calls >>
    /\ UNCHANGED << mainArgs, checkpoint, trainState, frame, mainHist, batchHist >>

\* range(args.num_epochs): the value after e
NextEpochSkips(e) == e + 2
NextEpoch(e) == e + 1

\* lines 35-39: the for statement, and the call of the training pass
LoopNext ==
    /\ pc = "loop"
    /\ IF NextEpoch(epoch) < num_epochs
       THEN /\ epoch' = NextEpoch(epoch)
            /\ pc' = "train"
            /\ Call(train_loader, TRUE, TRUE)
       ELSE /\ epoch' = epoch
            /\ pc' = "after"
            /\ UNCHANGED frame
    /\ UNCHANGED << train_loss, val_loss, monitor, log_calls >>
    /\ UNCHANGED << mainArgs, checkpoint, trainState, mainHist, batchHist >>

\* lines 37-42: the training pass returns, the validation pass is called
TrainReturn ==
    /\ pc = "train"
    /\ rpc = "returned"
    /\ train_loss' = ret
    /\ pc' = "val"
    /\ Call(val_loader, FALSE, FALSE)
    /\ UNCHANGED << epoch, val_loss, monitor, log_calls >>
    /\ UNCHANGED << mainArgs, checkpoint, trainState, mainHist, batchHist >>

\* lines 42-44: the validation pass returns; logger(...); monitor(val_loss).
\* train_loss is not read after the logger call and is cleared.
ValReturn ==
    /\ pc = "val"
    /\ rpc = "returned"
    /\ val_loss' = ret
    /\ train_loss' = NoLoss
    /\ log_calls' = log_calls + 1
    /\ monitor' = MonitorCall(monitor, ret)
    /\ monitor_calls' = monitor_calls + 1
    /\ val_hist' = Append(val_hist, ret)
    /\ epoch_params' = Append(epoch_params, model)
    /\ pc' = "check"
    /\ Discard
    /\ UNCHANGED epoch
    /\ UNCHANGED << mainArgs, checkpoint, trainState, batchHist >>

\* lines 45-47 with the save left out
CheckNoSave ==
    /\ pc = "check"
    /\ pc' = IF monitor.stop THEN "after" ELSE "loop"
    /\ UNCHANGED << epoch, train_loss, val_loss, monitor, log_calls >>
    /\ UNCHANGED << mainArgs, checkpoint, trainState, frame, mainHist, batchHist >>

\* lines 45-47 with the break left out
CheckNoBreak ==
    /\ pc = "check"
    /\ IF monitor.stop THEN Save("loop") ELSE UNCHANGED checkpoint
    /\ pc' = "loop"
    /\ UNCHANGED << epoch, train_loss, val_loss, monitor, log_calls >>
    /\ UNCHANGED << mainArgs, trainState, frame, mainHist, batchHist >>

\* lines 45-47: if monitor.stop: save_checkpoint(...); break
Check ==
    /\ pc = "check"
    /\ IF monitor.stop
       THEN /\ Save("loop")
            /\ pc' = "after"
       ELSE /\ UNCHANGED checkpoint
            /\ pc' = "loop"
    /\ UNCHANGED << epoch, train_loss, val_loss, monitor, log_calls >>
    /\ UNCHANGED << mainArgs, trainState, frame, mainHist, batchHist >>

\* lines 48-49 with the condition left out
AfterLoopUnconditional ==
    /\ pc = "after"
    /\ Save("after")
    /\ pc' = "done"
    /\ UNCHANGED << epoch, train_loss, val_loss, monitor, log_calls >>
    /\ UNCHANGED << mainArgs, trainState, frame, mainHist, batchHist >>

\* lines 48-49: if not monitor.stop: save_checkpoint(...)
AfterLoop ==
    /\ pc = "after"
    /\ IF ~monitor.stop THEN Save("after") ELSE UNCHANGED checkpoint
    /\ pc' = "done"
    /\ UNCHANGED << epoch, train_loss, val_loss, monitor, log_calls >>
    /\ UNCHANGED << mainArgs, trainState, frame, mainHist, batchHist >>

\* an exception raised in run_epoch leaves main: nothing catches it
Propagate ==
    /\ pc \in {"train", "val"}
    /\ rpc = "raised"
    /\ pc' = "error"
    /\ UNCHANGED << epoch, train_loss, val_loss, monitor, log_calls >>
    /\ UNCHANGED << mainArgs, checkpoint, trainState, frame, mainHist, batchHist >>

\* ------------------------------------------------------- specifications
InitCommon ==
    /\ epoch = -1
    /\ train_loss = NoLoss
    /\ val_loss = NoLoss
    /\ log_calls = 0
    /\ model = 0
    /\ opt_steps = 0
    /\ sched_steps = 0
    /\ saves = 0
    /\ saved = -1
    /\ save_site = "none"
    /\ val_hist = << >>
    /\ epoch_params = << >>
    /\ train_batches = 0
    /\ val_batches = 0
    /\ monitor_calls = 0
    /\ i = 0
    /\ total_loss = 0
    /\ ret = NoLoss
    /\ exc = "none"
    /\ seen = NoneSeen
    /\ forwards = 0
    /\ entry = << 0, 0, 0 >>

\* main(args) is entered
Init ==
    /\ num_epochs \in 0..MaxEpochs
    /\ patience \in 0..MaxPatience
    /\ train_loader \in 0..MaxBatches
    /\ val_loader \in 0..MaxBatches
    /\ pc = "start"
    /\ monitor = MonitorInit(patience)
    /\ rpc = "idle"
    /\ data_loader = 0
    /\ optimizer = FALSE
    /\ scheduler = FALSE
    /\ InitCommon

Next ==
    \/ Setup
    \/ LoopNext
    \/ TrainReturn
    \/ ValReturn
    \/ Check
    \/ AfterLoop
    \/ Propagate
    \/ RunEpochAssert
    \/ RunEpochBatch
    \/ RunEpochReturn

Spec == Init /\ [][Next]_vars

\* main is one thread of control: it keeps running until it returns or raises
FairSpec == Spec /\ WF_vars(Next)

\* run_epoch called on its own, with any combination of its optional arguments
EpochInit ==
    /\ num_epochs = 0
    /\ patience = 0
    /\ train_loader = 0
    /\ val_loader = 0
    /\ pc = "harness"
    /\ monitor = MonitorInit(0)
    /\ rpc = "entry"
    /\ data_loader \in 0..MaxLoaderLen
    /\ optimizer \in BOOLEAN
    /\ scheduler \in BOOLEAN
    /\ InitCommon

EpochNext ==
    \/ RunEpochAssert
    \/ RunEpochBatch
    \/ RunEpochReturn

EpochSpec == EpochInit /\ [][EpochNext]_vars

\* the monitor on its own, fed any sequence of losses (also after it has
\* signalled stop): the means of a two-batch pass, and whole-number losses
FedLosses ==
    { Mean(t, 2) : t \in 0..(MaxLoss * 2) } \cup { Mean(l, 1) : l \in Losses }

MonitorSpecInit ==
    /\ num_epochs = 0
    /\ patience \in 0..MaxPatience
    /\ train_loader = 0
    /\ val_loader = 0
    /\ pc = "monitor_harness"
    /\ monitor = MonitorInit(patience)
    /\ rpc = "idle"
    /\ data_loader = 0
    /\ optimizer = FALSE
    /\ scheduler = FALSE
    /\ InitCommon

\* monitor(val_loss)
MonitorFeed ==
    /\ pc = "monitor_harness"
    /\ Len(val_hist) < MaxFed
    /\ \E loss \in FedLosses :
         /\ monitor' = MonitorCall(monitor, loss)
         /\ val_hist' = Append(val_hist, loss)
    /\ monitor_calls' = monitor_calls + 1
    /\ UNCHANGED << pc, epoch, train_loss, val_loss, log_calls, epoch_params >>
    /\ UNCHANGED << mainArgs, checkpoint, trainState, frame, batchHist >>

MonitorNext == MonitorFeed

MonitorSpec == MonitorSpecInit /\ [][MonitorNext]_vars

TypeOK ==
    /\ num_epochs \in 0..MaxEpochs
    /\ patience \in 0..MaxPatience
    /\ pc \in {"start", "loop", "train", "val", "check", "after", "done",
               "error", "harness", "monitor_harness"}
    /\ rpc \in {"idle", "entry", "loop", "returned", "raised"}
    /\ epoch \in -1..MaxEpochs
    /\ saves \in Nat
    /\ i \in 0..data_loader

\* ---------------------------------------------------------------- claims
\* s[k] does not improve on the losses before it: it is not lower than the
\* lowest of them (the first loss always improves)
NonImproving(s, k) ==
    /\ k > 1
    /\ \E j \in 1..(k - 1) :
         /\ \A h \in 1..(k - 1) : ~Lt(s[h], s[j])
         /\ ~Lt(s[k], s[j])

\* the last n losses of s are all non-improving
SuffixNonImproving(s, n) ==
    /\ n <= Len(s)
    /\ \A k \in (Len(s) - n + 1)..Len(s) : NonImproving(s, k)

\* some suffix of s of length >= P is entirely non-improving
HasStopSuffix(s, P) ==
    \E n \in 0..Len(s) : n >= P /\ SuffixNonImproving(s, n)

Prefix(s, j) == SubSeq(s, 1, j)

\* 0.9, 0.8, 0.85, 0.86 in the model's losses, in the same order:
\* 2 > 3/2 > 1 > 1/2 as 0.9 > 0.86 > 0.85 > 0.8
ExampleLosses == << Mean(2, 1), Mean(1, 2), Mean(1, 1), Mean(3, 2) >>

\* C3: after any sequence of losses fed to the monitor with patience P, stop
\* is true iff after some loss fed so far a suffix of length >= P of the
\* losses fed up to then was entirely non-improving relative to the running
\* best; with the example's losses and P = 2 stop is false after the third
\* loss and true after the fourth.
C3_StopIffNonImprovingSuffix ==
    pc = "monitor_harness" =>
        /\ monitor.stop <=>
             \E j \in 1..Len(val_hist) : HasStopSuffix(Prefix(val_hist, j), patience)
        /\ (patience = 2 /\ val_hist = Prefix(ExampleLosses, 3)) => ~monitor.stop
        /\ (patience = 2 /\ val_hist = ExampleLosses) => monitor.stop

C3_Witness ==
    /\ pc = "monitor_harness"
    /\ patience = 2
    /\ val_hist = ExampleLosses
    /\ monitor.stop
    /\ monitor.counter = 2

\* C1: save_checkpoint is called at most once in any run, and exactly once
\* in a run that completes: in the loop iff the monitor signalled stop,
\* after the loop iff it did not (all epochs then having run), never both.
C1_ExactlyOneCheckpoint ==
    /\ saves <= 1
    /\ (saves = 1) => pc \in {"after", "done"}
    /\ (pc = "done") =>
          /\ saves = 1
          /\ monitor.stop <=> save_site = "loop"
          /\ (~monitor.stop) <=> save_site = "after"
          /\ (~monitor.stop) => Len(val_hist) = num_epochs

C1_Witness ==
    /\ pc = "done"
    /\ saves = 1
    /\ save_site = "loop"
    /\ monitor.stop
    /\ epoch + 1 < num_epochs

\* the epochs whose validation loss is the lowest of the run
BestEpochs ==
    { e \in 1..Len(val_hist) : \A h \in 1..Len(val_hist) : ~Lt(val_hist[h], val_hist[e]) }

\* the parameters at the end of the last epoch run (the initial ones if none ran)
LastEpochParams ==
    IF epoch_params = << >> THEN 0 ELSE epoch_params[Len(epoch_params)]

\* C2 as stated: the checkpoint of a completed run holds the parameters the
\* model had at the end of an epoch whose validation loss is the lowest.
C2_SavesBestModel ==
    (pc = "done" /\ val_hist # << >>) =>
        \E e \in BestEpochs : saved = epoch_params[e]

\* C2, amended: the checkpoint of a completed run holds the parameters the
\* model has when it is saved, those at the end of the last epoch run.
C2_SavesCurrentModel ==
    (pc = "done") => saved = LastEpochParams

C2_Witness ==
    /\ pc = "done"
    /\ monitor.stop
    /\ saved = LastEpochParams
    /\ \A e \in BestEpochs : epoch_params[e] # saved

\* C6: the loop variable stays below num_epochs; once the monitor's stop
\* flag is true no batch is processed and neither logger nor monitor is
\* called again, the next step is the one save and the one after it ends
\* the run; with the flag false after epoch e and e + 1 < num_epochs the
\* next epoch's training pass is entered.
C6_StopEndsRun ==
    [][ /\ epoch' < num_epochs
        /\ Len(val_hist') <= num_epochs
        /\ monitor.stop =>
             /\ UNCHANGED << train_batches, val_batches, log_calls,
                             monitor_calls, epoch, trainState, frame >>
             /\ (pc = "check") => (saves' = saves + 1 /\ pc' = "after")
             /\ (pc = "after") => (saves' = saves /\ pc' = "done")
        /\ (pc = "check" /\ ~monitor.stop) => pc' = "loop"
        /\ (pc = "loop" /\ epoch + 1 < num_epochs) =>
             /\ epoch' = epoch + 1
             /\ pc' = "train"
             /\ rpc' = "entry"
             /\ optimizer'
      ]_vars

C6_Witness ==
    /\ pc = "done"
    /\ monitor.stop
    /\ epoch + 2 < num_epochs
    /\ train_batches = (epoch + 1) * train_loader
    /\ monitor_calls = epoch + 1
    /\ saves = 1

\* C7: during and after a pass called without an optimizer the parameters,
\* the optimizer's step count and the schedule's position are those at the
\* call.
C7_EvaluationChangesNothing ==
    (rpc # "idle" /\ ~optimizer) => trainState = entry

C7_Witness ==
    /\ pc = "val"
    /\ rpc = "returned"
    /\ ~optimizer
    /\ i = 2
    /\ model >= 2
    /\ trainState = entry

\* steps run_epoch has yet to take before its caller resumes
CallRemaining ==
    CASE rpc = "entry" -> data_loader + 2
      [] rpc = "loop" -> data_loader - i + 1
      [] OTHER -> 0

\* an upper bound on the steps main has yet to take
StepsRemaining ==
    LET perEpoch == train_loader + val_loader + 10
        later == (num_epochs - 1 - epoch) * perEpoch
    IN  CASE pc = "start" -> (num_epochs + 1) * perEpoch + 3
          [] pc = "loop" -> later + 2
          [] pc = "train" -> later + CallRemaining + val_loader + 7
          [] pc = "val" -> later + CallRemaining + 4
          [] pc = "check" -> later + 3
          [] pc = "after" -> 1
          [] OTHER -> 0

\* every step brings the end nearer; the loop variable only moves by one, at
\* the for statement; nothing happens after the run has completed
StepsInOrder ==
    [][ /\ StepsRemaining' < StepsRemaining
        /\ StepsRemaining' >= 0
        /\ epoch' = epoch \/ (epoch' = epoch + 1 /\ pc = "loop")
        /\ pc # "done"
      ]_vars

\* main has completed or has a step to take
NotStuck == pc = "done" \/ ENABLED Next

\* C8 as stated: every run reaches the saved-and-stopped state (it never
\* ends anywhere else, and every step brings its end nearer), the epoch
\* index moving by one per step of the loop, and that state is terminal.
C8_AlwaysReachesSaved == []NotStuck /\ StepsInOrder

\* C8, amended: every run with non-empty training and validation loaders
\* reaches the saved-and-stopped state (it never ends anywhere else, and
\* every step brings its end nearer), the epoch index moving by one per
\* step of the loop, and that state is terminal.
C8_ReachesSavedIfLoadersNonEmpty ==
    /\ [](train_loader >= 1 /\ val_loader >= 1 => NotStuck)
    /\ StepsInOrder

C8_Witness ==
    /\ pc = "done"
    /\ ~monitor.stop
    /\ num_epochs = MaxEpochs
    /\ epoch = num_epochs - 1
    /\ saves = 1

\* the run stopped before its last epoch
StoppedEarly == monitor.stop /\ epoch + 1 < num_epochs

\* C9: schedule steps, optimizer steps and training batches processed are
\* equal in number, never more than num_epochs * len(train_loader), and at
\* the end equal to it iff the run was not stopped before its last epoch.
C9_OneStepPerTrainingBatch ==
    /\ sched_steps = opt_steps
    /\ opt_steps = train_batches
    /\ sched_steps <= num_epochs * train_loader
    /\ (pc = "done") =>
          (sched_steps = num_epochs * train_loader <=> ~StoppedEarly)

C9_Witness ==
    /\ pc = "done"
    /\ StoppedEarly
    /\ sched_steps = 4
    /\ train_batches = 4
    /\ val_batches >= 2

\* C4: with no optimizer and a scheduler, run_epoch raises the assertion
\* error having read no batch and run no forward pass, with parameters,
\* optimizer and schedule as at the call.
C4_SchedulerWithoutOptimizerFails ==
    (pc = "harness" /\ ~optimizer /\ scheduler) =>
        /\ rpc \in {"entry", "raised"}
        /\ (rpc = "raised") => exc = "AssertionError"
        /\ i = 0
        /\ forwards = 0
        /\ trainState = entry

C4_Witness ==
    /\ pc = "harness"
    /\ ~optimizer
    /\ scheduler
    /\ data_loader >= 2
    /\ rpc = "raised"
    /\ exc = "AssertionError"

\* C5: the value run_epoch returns is the sum of the losses of the batches
\* iterated, each once, divided by their number, which is the loader's
\* length and not zero.
C5_ReturnsMeanLoss ==
    (pc = "harness" /\ rpc = "returned") =>
        /\ data_loader >= 1
        /\ i = data_loader
        /\ SeenCount = data_loader
        /\ ret[2] > 0
        /\ ret[1] * SeenCount = SeenSum * ret[2]

C5_Witness ==
    /\ pc = "harness"
    /\ rpc = "returned"
    /\ optimizer
    /\ data_loader = 3
    /\ seen[0] = 1
    /\ seen[1] = 0
    /\ seen[2] = 2
    /\ ret = Mean(4, 3)

\* C10 as stated: with an optimizer and no scheduler, on a non-empty
\* loader, run_epoch raises nothing and returns the mean loss after one
\* optimizer step per batch.
C10_SchedulerIsOptional ==
    (pc = "harness" /\ optimizer /\ ~scheduler /\ data_loader >= 1) =>
        /\ exc = "none"
        /\ rpc # "raised"
        /\ (i = data_loader /\ rpc = "loop") => opt_steps = data_loader

====
